---- MODULE Spec2Model ----
(***************************************************************************)
(* Model of the Stripe webhook processor of junctionsim                    *)
(* (supabase_edge_function_stripe_webhook.ts).                              *)
(*                                                                         *)
(* One request is one invocation of the Deno.serve callback.  The callback *)
(* is async: between two awaits on the store or on the payment provider    *)
(* other requests may run, so every awaited call is one atomic step and a  *)
(* request's position (pc) is the await it is suspended at.                *)
(*                                                                         *)
(* Money: amount_total / amount_paid are integers in minor units.  The     *)
(* DECIMAL columns users.total_spent and transactions.amount hold          *)
(* amount / 100; the model stores them multiplied by 100 (hundredths), so  *)
(* "x + amount / 100" of the code is "x + amount" here.                    *)
(*                                                                         *)
(* Time: new Date() is the number of requests received so far (Now); a   *)
(* store call carries the value read when it was issued (issued), which    *)
(* is before the await that returns it.                                    *)
(*                                                                         *)
(* Store client: the file never declares supabaseClient.  Unbound, its     *)
(* first evaluation throws a ReferenceError that the handler's catch block *)
(* answers with 500; bound, each awaited call returns a result without     *)
(* error, a result with an error, or rejects.                              *)
(***************************************************************************)
EXTENDS Integers, Sequences, FiniteSets, TLC

\* ------------------------------------------------------------- bounds
\* Number of deliveries (requests) in one behaviour.
MaxDeliveries == 2

Slots == 1..MaxDeliveries

\* ------------------------------------------------------------- values
\* JavaScript null / undefined of a string-valued field.
NoString == "null"

\* JavaScript undefined / null of a number-valued field, SQL NULL of a
\* timestamp column.
Undefined == -1

\* Response status of a request that has not been answered yet.
NoStatus == 0

Emails == {"a@x", "b@x"}

\* ------------------------------------------------------------- schema
\* Column defaults of CREATE TABLE users.
DefaultCredits == 5

DefaultRow ==
  [credits |-> DefaultCredits,
   subscription_tier |-> "free",
   subscription_id |-> NoString,
   subscription_active |-> FALSE,
   last_purchase |-> Undefined,
   last_payment |-> Undefined,
   total_spent |-> 0,
   subscription_cancelled |-> Undefined]

\* No row with this email.
NoRow == [DefaultRow EXCEPT !.credits = Undefined, !.subscription_tier = "absent"]

Exists(row) == row.subscription_tier # "absent"

\* ------------------------------------------------------------- payment provider
\* The events the provider may deliver.  An event is immutable: every
\* delivery of one event id carries the same payload.
\*   type            receivedEvent.type
\*   id              session.id
\*   email           session.customer_details?.email / invoice.customer_email
\*   amount          session.amount_total / invoice.amount_paid
\*   subscription    invoice.subscription
\*   customer        subscription.customer
EventTable ==
  <<[type |-> "checkout.session.completed", id |-> "cs_1", email |-> "a@x",
     amount |-> 500, subscription |-> NoString, customer |-> NoString],
    [type |-> "checkout.session.completed", id |-> "cs_2", email |-> "a@x",
     amount |-> 300, subscription |-> NoString, customer |-> NoString],
    [type |-> "checkout.session.completed", id |-> "cs_3", email |-> "a@x",
     amount |-> 1000, subscription |-> NoString, customer |-> NoString],
    [type |-> "checkout.session.completed", id |-> "cs_4", email |-> "b@x",
     amount |-> 7, subscription |-> NoString, customer |-> NoString],
    [type |-> "checkout.session.completed", id |-> "cs_5", email |-> NoString,
     amount |-> 500, subscription |-> NoString, customer |-> NoString],
    [type |-> "invoice.payment_succeeded", id |-> "in_1", email |-> "a@x",
     amount |-> 2500, subscription |-> "sub_1", customer |-> NoString],
    [type |-> "invoice.payment_succeeded", id |-> "in_2", email |-> "a@x",
     amount |-> 9900, subscription |-> "sub_2", customer |-> NoString],
    [type |-> "invoice.payment_succeeded", id |-> "in_3", email |-> "",
     amount |-> 2500, subscription |-> "sub_1", customer |-> NoString],
    [type |-> "customer.subscription.deleted", id |-> "sub_1", email |-> NoString,
     amount |-> Undefined, subscription |-> NoString, customer |-> "cus_1"],
    [type |-> "customer.subscription.deleted", id |-> "sub_2", email |-> NoString,
     amount |-> Undefined, subscription |-> NoString, customer |-> "cus_2"],
    [type |-> "customer.subscription.deleted", id |-> "sub_3", email |-> NoString,
     amount |-> Undefined, subscription |-> NoString, customer |-> "cus_3"],
    [type |-> "customer.created", id |-> "cus_1", email |-> "a@x",
     amount |-> Undefined, subscription |-> NoString, customer |-> NoString],
    [type |-> "customer.subscription.deleted", id |-> "sub_4", email |-> NoString,
     amount |-> Undefined, subscription |-> NoString, customer |-> "cus_4"]>>

EventIds == DOMAIN EventTable

\* stripe.subscriptions.retrieve(id).items.data[0]?.price.product
SubscriptionProduct(sub) ==
  CASE sub = "sub_1" -> "prod_1"
    [] sub = "sub_2" -> "prod_2"
    [] OTHER -> NoString

\* stripe.products.retrieve(id).name, as a sequence of characters
ProductName(prod) ==
  CASE prod = "prod_1" -> <<"J", "S", " ", "P", "r", "e", "m", "i", "u", "m">>
    [] prod = "prod_2" -> <<"p", "r", "e", "m", "i", "u", "m", " ", "X", "L">>
    [] OTHER -> <<>>

\* stripe.customers.retrieve(id).  The field deleted is "true", "false" or
\* "undefined" (the object has no such field).  cus_1 carries deleted: false;
\* cus_2 was deleted upstream; cus_3 and cus_4 are live customers without the
\* field, cus_3 with no email.
Customer(cus) ==
  CASE cus = "cus_1" -> [deleted |-> "false", email |-> "a@x"]
    [] cus = "cus_2" -> [deleted |-> "true", email |-> NoString]
    [] cus = "cus_3" -> [deleted |-> "undefined", email |-> NoString]
    [] OTHER -> [deleted |-> "undefined", email |-> "a@x"]

\* ------------------------------------------------------------- JavaScript helpers
\* Mutant of Falsy: only null / undefined is tested, "" passes.
Falsy_NullOnly(s) == s = NoString

\* !x for a string-valued x: null, undefined and "" are falsy.
Falsy(s) == s = NoString \/ s = ""

\* x || 0 for a number-valued x: undefined, null and 0 give 0.
OrZero(x) == IF x = Undefined THEN 0 ELSE x

\* Mutant of Includes: startsWith, pat is looked for at the start only.
Includes_Prefix(s, pat) ==
  /\ Len(s) >= Len(pat)
  /\ \A j \in 1..Len(pat) : s[j] = pat[j]

\* String.prototype.includes: pat occurs in s as a contiguous substring
\* (case-sensitive).
Includes(s, pat) ==
  \E k \in 0..(Len(s) - Len(pat)) :
    \A j \in 1..Len(pat) : s[k + j] = pat[j]

Premium == <<"P", "r", "e", "m", "i", "u", "m">>

\* Math.floor(amount / 10) for amount >= 0
Floor10(amount) == amount \div 10

\* ------------------------------------------------------------- signature verification
\* Deno.env.get("STRIPE_WEBHOOK_SIGNING_SECRET")
SigningSecret == 3

\* A secret that is not the endpoint's.
OtherSecret == SigningSecret + 1

\* A Stripe-Signature header that does not parse (no v1 element).
MalformedHeader == -2

\* The keyed hash of the raw body (HMAC-SHA256 in the library), here a small
\* keyed hash of the body's event number.
ComputeSignature(secret, body) == (secret * 31 + body * 7) % 97

\* Mutant of constructEventAsync: a well-formed header is accepted without
\* comparing its signature with the computed one.
constructEventAsync_NoCompare(body, signature, secret) ==
  /\ signature # Undefined
  /\ signature # MalformedHeader

\* stripe.webhooks.constructEventAsync(body, signature, secret): TRUE when it
\* returns the decoded event, FALSE when it throws.  The header is Undefined
\* (absent), MalformedHeader, or the v1 signature it carries.
constructEventAsync(body, signature, secret) ==
  /\ signature # Undefined
  /\ signature # MalformedHeader
  /\ signature = ComputeSignature(secret, body)

\* The body an attacker or a misconfigured sender posts with a bad signature
\* (the check precedes the decoding, so the kind of event does not matter).
ForgedBodies == {1}

Headers(body) ==
  {ComputeSignature(SigningSecret, body)} \cup
  (IF body \in ForgedBodies
     THEN {Undefined, MalformedHeader, ComputeSignature(OtherSecret, body),
           ComputeSignature(SigningSecret, (body % Len(EventTable)) + 1)}
     ELSE {})

\* ------------------------------------------------------------- state
VARIABLES
  users,          \* table users: email -> row, NoRow when absent
  transactions,   \* table transactions, in insertion order
  pc,             \* per request: the await it is suspended at
  body,           \* per request: the event number its body carries
  header,         \* per request: its Stripe-Signature header
  status,         \* per request: the response status, NoStatus before
  userData,       \* per request: result of the select in the checkout handler
  productId,      \* per request: product of the retrieved subscription
  tier,           \* per request: tier computed from the product name
  customerEmail,  \* per request: email resolved by the deleted handler
  issued,         \* per request: new Date() read when the pending call was issued
  supabaseClient, \* the binding of the identifier supabaseClient
  storeOps,       \* per request: number of store calls made
  lookups,        \* per request: number of provider lookups made
  storeErrors,    \* per request: number of store calls that reported an error
  lookupErrors,   \* per request: number of provider lookups that threw
  writes,         \* per request: number of store writes that succeeded
  prior           \* history: table users when the behaviour started

vars == <<users, transactions, pc, body, header, status, userData, productId,
          tier, customerEmail, issued, supabaseClient, storeOps, lookups,
          storeErrors, lookupErrors, writes, prior>>

locals == <<userData, productId, tier, customerEmail, issued>>

\* new Date(): the number of requests received so far
Now == Cardinality({i \in Slots : pc[i] # "idle"})

Inflight == {i \in Slots : pc[i] \notin {"idle", "done"}}

receivedEvent(i) == EventTable[body[i]]

\* result of .select("credits").single() when no row matches (PGRST116):
\* data is null
NoData == [credits |-> Undefined, total_spent |-> Undefined]

\* ------------------------------------------------------------- store adapter
\* .from("users").select(columns).eq("email", email).single(): the selected
\* columns of the row; a column that was not selected is undefined in data.
Select(table, columns, email) ==
  IF Exists(table[email])
    THEN [c \in {"credits", "total_spent"} |->
            IF c \in columns THEN table[email][c] ELSE Undefined]
    ELSE NoData

\* Mutant of Upsert: on conflict the row is replaced by a new row, the
\* columns that are not given take their defaults.
Upsert_ReplacesRow(table, email, credits, last_purchase, total_spent, subscription_tier) ==
  [table EXCEPT ![email] =
     [DefaultRow EXCEPT
        !.credits = credits, !.last_purchase = last_purchase,
        !.total_spent = total_spent, !.subscription_tier = subscription_tier]]

\* .from("users").upsert(values, {onConflict: "email"}): insert a row with
\* the column defaults, or overwrite the given columns of the existing row.
Upsert(table, email, credits, last_purchase, total_spent, subscription_tier) ==
  [table EXCEPT ![email] =
     [(IF Exists(@) THEN @ ELSE DefaultRow) EXCEPT
        !.credits = credits,
        !.last_purchase = last_purchase,
        !.total_spent = total_spent,
        !.subscription_tier = subscription_tier]]

\* .from("users").update(values).eq("email", email) of the payment handler:
\* changes the matching row, changes nothing when there is none.
UpdatePayment(table, email, subscription_tier, subscription_id, last_payment) ==
  [table EXCEPT ![email] =
     IF Exists(@)
       THEN [@ EXCEPT !.subscription_tier = subscription_tier,
                      !.subscription_id = subscription_id,
                      !.subscription_active = TRUE,
                      !.last_payment = last_payment]
       ELSE @]

\* Mutant of UpdateCancelled: the cancellation also takes the plan away.
UpdateCancelled_ClearsSubscription(table, email, subscription_cancelled) ==
  [table EXCEPT ![email] =
     IF Exists(@)
       THEN [@ EXCEPT !.subscription_active = FALSE,
                      !.subscription_tier = "free",
                      !.subscription_id = NoString,
                      !.subscription_cancelled = subscription_cancelled]
       ELSE @]

\* .from("users").update(values).eq("email", email) of the deleted handler
UpdateCancelled(table, email, subscription_cancelled) ==
  [table EXCEPT ![email] =
     IF Exists(@)
       THEN [@ EXCEPT !.subscription_active = FALSE,
                      !.subscription_cancelled = subscription_cancelled]
       ELSE @]

\* Mutant of Insert: the new record takes the place of the latest one.
Insert_ReplacesLast(log, record) ==
  IF log = <<>> THEN <<record>> ELSE [log EXCEPT ![Len(log)] = record]

\* .from("transactions").insert(record)
Insert(log, record) == Append(log, record)

\* ------------------------------------------------------------- the handler
\* The file uses the identifier supabaseClient and never declares or imports
\* it.  As committed the identifier is unbound and its evaluation throws a
\* ReferenceError; a deployment that binds it to a store client makes the
\* calls.
ClientBindings == {"unbound", "bound"}

\* Outcomes of an awaited store call: a result without error, a result with
\* an error, a rejected promise.
StoreResults == {"ok", "error", "rejected"}

Init ==
  /\ users \in {[e \in Emails |-> NoRow],
                [e \in Emails |-> IF e = "a@x" THEN DefaultRow ELSE NoRow]}
  /\ transactions = <<>>
  /\ pc = [i \in Slots |-> "idle"]
  /\ body = [i \in Slots |-> 0]
  /\ header = [i \in Slots |-> Undefined]
  /\ status = [i \in Slots |-> NoStatus]
  /\ userData = [i \in Slots |-> NoData]
  /\ productId = [i \in Slots |-> NoString]
  /\ tier = [i \in Slots |-> NoString]
  /\ customerEmail = [i \in Slots |-> NoString]
  /\ issued = [i \in Slots |-> Undefined]
  /\ supabaseClient \in ClientBindings
  /\ storeOps = [i \in Slots |-> 0]
  /\ lookups = [i \in Slots |-> 0]
  /\ storeErrors = [i \in Slots |-> 0]
  /\ lookupErrors = [i \in Slots |-> 0]
  /\ writes = [i \in Slots |-> 0]
  /\ prior = users

\* return new Response(..., { status: code }): the request is over and its
\* local variables are gone.
Respond(i, code) ==
  /\ pc' = [pc EXCEPT ![i] = "done"]
  /\ status' = [status EXCEPT ![i] = code]
  /\ userData' = [userData EXCEPT ![i] = NoData]
  /\ productId' = [productId EXCEPT ![i] = NoString]
  /\ tier' = [tier EXCEPT ![i] = NoString]
  /\ customerEmail' = [customerEmail EXCEPT ![i] = NoString]
  /\ issued' = [issued EXCEPT ![i] = Undefined]

\* Bookkeeping of one awaited store call of request i and of its outcome.
\* Every store call but the select of the purchase handler is a write.
StoreCall(i, ok) ==
  /\ storeOps' = [storeOps EXCEPT ![i] = @ + 1]
  /\ storeErrors' = [storeErrors EXCEPT ![i] = IF ok THEN @ ELSE @ + 1]
  /\ writes' = [writes EXCEPT ![i] = IF ok /\ pc[i] # "co_select" THEN @ + 1 ELSE @]
  /\ UNCHANGED <<lookups, lookupErrors, prior, supabaseClient>>

\* Bookkeeping of one awaited provider lookup of request i and of its outcome.
ProviderCall(i, ok) ==
  /\ lookups' = [lookups EXCEPT ![i] = @ + 1]
  /\ lookupErrors' = [lookupErrors EXCEPT ![i] = IF ok THEN @ ELSE @ + 1]
  /\ UNCHANGED <<storeOps, storeErrors, writes, prior, supabaseClient>>

\* Mutant of Dispatch: the second test repeats the first handler's body, so
\* a subscription payment runs the credit-purchase handler.
Dispatch_WrongHandler(type) ==
  CASE type = "checkout.session.completed" -> "co_select"
    [] type = "invoice.payment_succeeded" -> "co_select"
    [] type = "customer.subscription.deleted" -> "del_customer"
    [] OTHER -> ""

\* Mutant of Dispatch: a type no handler takes falls into the last handler.
Dispatch_FallThrough(type) ==
  CASE type = "checkout.session.completed" -> "co_select"
    [] type = "invoice.payment_succeeded" -> "inv_subscription"
    [] OTHER -> "del_customer"

\* The first await of the handler the event type selects, "" for a type no
\* handler takes.
Dispatch(type) ==
  CASE type = "checkout.session.completed" -> "co_select"
    [] type = "invoice.payment_succeeded" -> "inv_subscription"
    [] type = "customer.subscription.deleted" -> "del_customer"
    [] OTHER -> ""

\* Deno.serve callback up to its first awaits: the header is read, then the
\* request is suspended on request.text() and on constructEventAsync, between
\* which it only passes the body on ("verifying" stands for both).
Receive(i, b, h) ==
  /\ pc[i] = "idle"
  /\ \A j \in Slots : j < i => pc[j] # "idle"
  /\ body' = [body EXCEPT ![i] = b]
  /\ header' = [header EXCEPT ![i] = h]
  /\ pc' = [pc EXCEPT ![i] = "verifying"]
  /\ UNCHANGED <<users, transactions, status, locals, storeOps, lookups,
                 storeErrors, lookupErrors, writes, prior, supabaseClient>>

\* constructEventAsync returns or throws; dispatch on the event type, email
\* check, up to the first await on the store or the provider.  The purchase
\* handler evaluates supabaseClient right away: unbound, the ReferenceError
\* is caught and answered 500.
Verify(i) ==
  /\ pc[i] = "verifying"
  /\ UNCHANGED <<users, transactions, body, header, storeOps, lookups,
                 storeErrors, lookupErrors, writes, prior, supabaseClient>>
  /\ IF ~constructEventAsync(body[i], header[i], SigningSecret)
       THEN Respond(i, 400)
       ELSE LET ev == EventTable[body[i]]
                next == Dispatch(ev.type)
            IN  IF next = ""
                  THEN Respond(i, 200)
                  ELSE IF next # "del_customer" /\ Falsy(ev.email)
                    THEN Respond(i, 400)
                    ELSE IF next = "co_select" /\ supabaseClient = "unbound"
                      THEN Respond(i, 500)
                      ELSE /\ pc' = [pc EXCEPT ![i] = next]
                           /\ UNCHANGED <<status, locals>>

\* checkout.session.completed ------------------------------------------------
userEmail(i) == receivedEvent(i).email

amount(i) == OrZero(receivedEvent(i).amount)

sessionId(i) == receivedEvent(i).id

currentCredits(i) == OrZero(userData[i].credits)

creditsToAdd(i) == Floor10(amount(i))

\* Mutant of newCredits: the balance read from the store is dropped.
newCredits_Overwrite(i) == creditsToAdd(i)

newCredits(i) == currentCredits(i) + creditsToAdd(i)

\* The columns the checkout handler selects.
SelectedColumns == {"credits"}

\* await supabaseClient.from("users").select("credits")...single(); then the
\* upsert is issued with last_purchase: new Date()
\* ok = FALSE: fetchError with a code other than PGRST116, or the call rejects
CoSelect(i, ok) ==
  /\ pc[i] = "co_select"
  /\ StoreCall(i, ok)
  /\ UNCHANGED <<users, transactions, body, header>>
  /\ IF ok
       THEN /\ userData' = [userData EXCEPT ![i] = Select(users, SelectedColumns, userEmail(i))]
            /\ issued' = [issued EXCEPT ![i] = Now]
            /\ pc' = [pc EXCEPT ![i] = "co_upsert"]
            /\ UNCHANGED <<status, productId, tier, customerEmail>>
       ELSE Respond(i, 500)

\* Mutant of CoUpsert: updateError is not read, the handler goes on to the
\* insert after an upsert that wrote nothing.
CoUpsert_IgnoresError(i, ok) ==
  /\ pc[i] = "co_upsert"
  /\ StoreCall(i, ok)
  /\ UNCHANGED <<transactions, body, header, status, userData, productId, tier,
                 customerEmail>>
  /\ users' = IF ok
                THEN Upsert(users, userEmail(i), newCredits(i), issued[i],
                            OrZero(userData[i].total_spent) + amount(i), "free")
                ELSE users
  /\ issued' = [issued EXCEPT ![i] = Now]
  /\ pc' = [pc EXCEPT ![i] = "co_insert"]

\* await supabaseClient.from("users").upsert(...); then the insert is issued
\* with timestamp: new Date()
\* ok = FALSE: updateError or the call rejects, nothing written
CoUpsert(i, ok) ==
  /\ pc[i] = "co_upsert"
  /\ StoreCall(i, ok)
  /\ UNCHANGED <<transactions, body, header>>
  /\ IF ok
       THEN /\ users' = Upsert(users, userEmail(i), newCredits(i), issued[i],
                               OrZero(userData[i].total_spent) + amount(i), "free")
            /\ issued' = [issued EXCEPT ![i] = Now]
            /\ pc' = [pc EXCEPT ![i] = "co_insert"]
            /\ UNCHANGED <<status, userData, productId, tier, customerEmail>>
       ELSE /\ UNCHANGED users
            /\ Respond(i, 500)

\* Mutant of CoInsert: the record is written before the outcome of the call
\* is known, also when the call fails.
CoInsert_AlwaysAppends(i, r) ==
  /\ pc[i] = "co_insert"
  /\ StoreCall(i, r = "ok")
  /\ UNCHANGED <<users, body, header>>
  /\ transactions' =
       Insert(transactions, [user_email |-> userEmail(i),
               session_id |-> sessionId(i),
               subscription_id |-> NoString,
               amount |-> amount(i),
               credits_added |-> creditsToAdd(i),
               timestamp |-> issued[i],
               type |-> "credit_purchase",
               status |-> "completed"])
  /\ Respond(i, IF r = "rejected" THEN 500 ELSE 200)

\* await supabaseClient.from("transactions").insert(...); return 200
\* r = "error": the insert reports an error in its result, which is not read
\* r = "rejected": the await throws into the catch block, which answers 500
CoInsert(i, r) ==
  /\ pc[i] = "co_insert"
  /\ StoreCall(i, r = "ok")
  /\ UNCHANGED <<users, body, header>>
  /\ transactions' =
       IF r = "ok"
         THEN Insert(transactions, [user_email |-> userEmail(i),
                      session_id |-> sessionId(i),
                      subscription_id |-> NoString,
                      amount |-> amount(i),
                      credits_added |-> creditsToAdd(i),
                      timestamp |-> issued[i],
                      type |-> "credit_purchase",
                      status |-> "completed"])
         ELSE transactions
  /\ Respond(i, IF r = "rejected" THEN 500 ELSE 200)

\* invoice.payment_succeeded --------------------------------------------------
invoiceEmail(i) == receivedEvent(i).email

amountPaid(i) == OrZero(receivedEvent(i).amount)

subscriptionId(i) == receivedEvent(i).subscription

\* Mutant of TierOf: the tier is the product's name for a plan that is not
\* Premium.
TierOf_OtherName(name) == IF Includes(name, Premium) THEN "premium" ELSE "basic"

\* product.name.includes("Premium") ? "premium" : "enterprise"
TierOf(name) == IF Includes(name, Premium) THEN "premium" ELSE "enterprise"

\* await stripe.subscriptions.retrieve(subscriptionId)
\* ok = FALSE: the lookup throws
InvSubscription(i, ok) ==
  /\ pc[i] = "inv_subscription"
  /\ ProviderCall(i, ok)
  /\ UNCHANGED <<users, transactions, body, header>>
  /\ IF ok
       THEN /\ productId' = [productId EXCEPT ![i] = SubscriptionProduct(subscriptionId(i))]
            /\ pc' = [pc EXCEPT ![i] = "inv_product"]
            /\ UNCHANGED <<status, userData, tier, customerEmail, issued>>
       ELSE Respond(i, 500)

\* Mutant of InvProduct: a failed product lookup is swallowed and the tier
\* defaults to enterprise.
InvProduct_DefaultsTier(i, ok) ==
  /\ pc[i] = "inv_product"
  /\ ProviderCall(i, ok /\ productId[i] # NoString)
  /\ UNCHANGED <<users, transactions, body, header>>
  /\ IF supabaseClient = "unbound"
       THEN Respond(i, 500)
       ELSE /\ tier' = [tier EXCEPT ![i] =
                         IF ok /\ productId[i] # NoString
                           THEN TierOf(ProductName(productId[i]))
                           ELSE "enterprise"]
            /\ issued' = [issued EXCEPT ![i] = Now]
            /\ pc' = [pc EXCEPT ![i] = "inv_update"]
            /\ UNCHANGED <<status, userData, productId, customerEmail>>

\* await stripe.products.retrieve(productId); tier from the product name;
\* then the update is issued with last_payment: new Date().  Unbound,
\* supabaseClient throws a ReferenceError, which is caught and answered 500.
\* ok = FALSE: the lookup throws
InvProduct(i, ok) ==
  /\ pc[i] = "inv_product"
  /\ ProviderCall(i, ok /\ productId[i] # NoString)
  /\ UNCHANGED <<users, transactions, body, header>>
  /\ IF ok /\ productId[i] # NoString /\ supabaseClient = "bound"
       THEN /\ tier' = [tier EXCEPT ![i] = TierOf(ProductName(productId[i]))]
            /\ issued' = [issued EXCEPT ![i] = Now]
            /\ pc' = [pc EXCEPT ![i] = "inv_update"]
            /\ UNCHANGED <<status, userData, productId, customerEmail>>
       ELSE Respond(i, 500)

\* await supabaseClient.from("users").update(...).eq("email", customerEmail);
\* then the insert is issued with timestamp: new Date()
\* ok = FALSE: updateError or the call rejects, nothing written
InvUpdate(i, ok) ==
  /\ pc[i] = "inv_update"
  /\ StoreCall(i, ok)
  /\ UNCHANGED <<transactions, body, header>>
  /\ IF ok
       THEN /\ users' = UpdatePayment(users, invoiceEmail(i), tier[i], subscriptionId(i),
                                      issued[i])
            /\ issued' = [issued EXCEPT ![i] = Now]
            /\ pc' = [pc EXCEPT ![i] = "inv_insert"]
            /\ UNCHANGED <<status, userData, productId, tier, customerEmail>>
       ELSE /\ UNCHANGED users
            /\ Respond(i, 500)

\* await supabaseClient.from("transactions").insert(...); return 200
\* r = "error": the insert reports an error in its result, which is not read
\* r = "rejected": the await throws into the catch block, which answers 500
InvInsert(i, r) ==
  /\ pc[i] = "inv_insert"
  /\ StoreCall(i, r = "ok")
  /\ UNCHANGED <<users, body, header>>
  /\ transactions' =
       IF r = "ok"
         THEN Insert(transactions, [user_email |-> invoiceEmail(i),
                      session_id |-> NoString,
                      subscription_id |-> subscriptionId(i),
                      amount |-> amountPaid(i),
                      credits_added |-> Undefined,
                      timestamp |-> issued[i],
                      type |-> "subscription_payment",
                      status |-> "completed"])
         ELSE transactions
  /\ Respond(i, IF r = "rejected" THEN 500 ELSE 200)

\* customer.subscription.deleted ----------------------------------------------
customerId(i) == receivedEvent(i).customer

\* customer.deleted === false ? customer.email : null
ResolveEmail(customer) ==
  IF customer.deleted = "false" THEN customer.email ELSE NoString

\* Mutant of DelCustomer: the resolved email is used without the check.
DelCustomer_NoEmailCheck(i, ok) ==
  /\ pc[i] = "del_customer"
  /\ ProviderCall(i, ok)
  /\ UNCHANGED <<users, transactions, body, header>>
  /\ IF ok
       THEN IF supabaseClient = "unbound"
              THEN Respond(i, 500)
              ELSE /\ customerEmail' = [customerEmail EXCEPT ![i] =
                                          ResolveEmail(Customer(customerId(i)))]
                   /\ issued' = [issued EXCEPT ![i] = Now]
                   /\ pc' = [pc EXCEPT ![i] = "del_update"]
                   /\ UNCHANGED <<status, userData, productId, tier>>
       ELSE Respond(i, 500)

\* await stripe.customers.retrieve(customerId); email check; then the update
\* is issued with subscription_cancelled: new Date().  Unbound,
\* supabaseClient throws a ReferenceError, which is caught and answered 500.
\* ok = FALSE: the lookup throws
DelCustomer(i, ok) ==
  /\ pc[i] = "del_customer"
  /\ ProviderCall(i, ok)
  /\ UNCHANGED <<users, transactions, body, header>>
  /\ IF ok
       THEN LET email == ResolveEmail(Customer(customerId(i)))
            IN  IF Falsy(email)
                  THEN Respond(i, 400)
                  ELSE IF supabaseClient = "unbound"
                    THEN Respond(i, 500)
                    ELSE /\ customerEmail' = [customerEmail EXCEPT ![i] = email]
                         /\ issued' = [issued EXCEPT ![i] = Now]
                         /\ pc' = [pc EXCEPT ![i] = "del_update"]
                         /\ UNCHANGED <<status, userData, productId, tier>>
       ELSE Respond(i, 500)

\* await supabaseClient.from("users").update(...).eq("email", customerEmail)
\* ok = FALSE: updateError or the call rejects, nothing written
DelUpdate(i, ok) ==
  /\ pc[i] = "del_update"
  /\ StoreCall(i, ok)
  /\ UNCHANGED <<transactions, body, header>>
  /\ IF ok
       THEN /\ users' = UpdateCancelled(users, customerEmail[i], issued[i])
            /\ Respond(i, 200)
       ELSE /\ UNCHANGED users
            /\ Respond(i, 500)

\* ------------------------------------------------------------- specification
Next ==
  \E i \in Slots :
    \/ \E b \in EventIds : \E h \in Headers(b) : Receive(i, b, h)
    \/ Verify(i)
    \/ \E ok \in BOOLEAN : CoSelect(i, ok)
    \/ \E ok \in BOOLEAN : CoUpsert(i, ok)
    \/ \E r \in StoreResults : CoInsert(i, r)
    \/ \E ok \in BOOLEAN : InvSubscription(i, ok)
    \/ \E ok \in BOOLEAN : InvProduct(i, ok)
    \/ \E ok \in BOOLEAN : InvUpdate(i, ok)
    \/ \E r \in StoreResults : InvInsert(i, r)
    \/ \E ok \in BOOLEAN : DelCustomer(i, ok)
    \/ \E ok \in BOOLEAN : DelUpdate(i, ok)

Spec == Init /\ [][Next]_vars

\* An awaited store call or provider lookup of request i never returns.  The
\* handler sets no timeout and races no timer against the call, so the
\* request stays suspended at that await.
CallNeverReturns(i) ==
  /\ pc[i] \notin {"idle", "done", "hung"}
  /\ pc' = [pc EXCEPT ![i] = "hung"]
  /\ UNCHANGED <<users, transactions, body, header, status, locals, storeOps,
                 lookups, storeErrors, lookupErrors, writes, prior, supabaseClient>>

\* The continuation of request i after the call it awaits has returned.
Continue(i) ==
  \/ Verify(i)
  \/ \E ok \in BOOLEAN :
       \/ CoSelect(i, ok) \/ CoUpsert(i, ok)
       \/ InvSubscription(i, ok) \/ InvProduct(i, ok) \/ InvUpdate(i, ok)
       \/ DelCustomer(i, ok) \/ DelUpdate(i, ok)
  \/ \E r \in StoreResults : CoInsert(i, r) \/ InvInsert(i, r)

LiveNext ==
  \/ Next
  \/ \E i \in Slots : CallNeverReturns(i)

\* Calls may hang; the runtime runs the continuation of every call that
\* returns (weak fairness of each request's continuation).
LiveSpec == Init /\ [][LiveNext]_vars /\ \A i \in Slots : WF_vars(Continue(i))

\* The same without hanging calls.
FairSpec == Init /\ [][Next]_vars /\ \A i \in Slots : WF_vars(Continue(i))

\* The provider delivers one request at a time: a request is received only
\* when no other is being handled.
SeqReceive(i, b, h) == Inflight = {} /\ Receive(i, b, h)

SeqNext ==
  \E i \in Slots :
    \/ \E b \in EventIds : \E h \in Headers(b) : SeqReceive(i, b, h)
    \/ Verify(i)
    \/ \E ok \in BOOLEAN : CoSelect(i, ok)
    \/ \E ok \in BOOLEAN : CoUpsert(i, ok)
    \/ \E r \in StoreResults : CoInsert(i, r)
    \/ \E ok \in BOOLEAN : InvSubscription(i, ok)
    \/ \E ok \in BOOLEAN : InvProduct(i, ok)
    \/ \E ok \in BOOLEAN : InvUpdate(i, ok)
    \/ \E r \in StoreResults : InvInsert(i, r)
    \/ \E ok \in BOOLEAN : DelCustomer(i, ok)
    \/ \E ok \in BOOLEAN : DelUpdate(i, ok)

SeqSpec == Init /\ [][SeqNext]_vars

TypeOK ==
  /\ \A i \in Slots : status[i] \in {NoStatus, 200, 400, 500}
  /\ \A i \in Slots : (pc[i] = "done") <=> (status[i] # NoStatus)
  /\ Len(transactions) <= MaxDeliveries

\* ------------------------------------------------------------- properties
Answered(i, code) == pc[i] = "done" /\ status[i] = code

\* The signature check of request i is over.
Checked(i) == pc[i] \notin {"idle", "verifying"}

\* The request's signature header is the endpoint's signature of its body.
GoodSignature(i) == header[i] = (SigningSecret * 31 + body[i] * 7) % 97

IsPurchase(i) ==
  /\ pc[i] # "idle"
  /\ GoodSignature(i)
  /\ EventTable[body[i]].type = "checkout.session.completed"

IsPayment(i) ==
  /\ pc[i] # "idle"
  /\ GoodSignature(i)
  /\ EventTable[body[i]].type = "invoice.payment_succeeded"

\* Balance and cumulative spend an account has in a table, 0 for an
\* identifier with no account.
BalanceIn(table, email) == IF Exists(table[email]) THEN table[email].credits ELSE 0

SpentIn(table, email) == IF Exists(table[email]) THEN table[email].total_spent ELSE 0

\* The step in which request i's account upsert succeeds.
UpsertStep(i) == pc[i] = "co_upsert" /\ pc'[i] = "co_insert"

\* C1: delivering the same credit-purchase event again, after a delivery of
\* it was answered 200, does not change the account's credit balance: the
\* upsert of the later delivery leaves the balance as it was.
C1_ReplayKeepsBalance ==
  [][\A j \in Slots :
       (/\ UpsertStep(j)
        /\ \E i \in Slots \ {j} : Answered(i, 200) /\ IsPurchase(i) /\ body[i] = body[j])
       => users'[EventTable[body[j]].email].credits
            = users[EventTable[body[j]].email].credits]_vars

\* C2: when exactly two credit-purchase events with different session ids
\* for one account were delivered and both were answered 200, the balance is
\* prior + floor(a1/10) + floor(a2/10), whatever the interleaving.
C2_NoLostUpdate ==
  \A i, j \in Slots :
    (/\ i < j
     /\ IsPurchase(i) /\ IsPurchase(j)
     /\ Answered(i, 200) /\ Answered(j, 200)
     /\ EventTable[body[i]].id # EventTable[body[j]].id
     /\ EventTable[body[i]].email = EventTable[body[j]].email
     /\ \A k \in Slots \ {i, j} : pc[k] = "idle")
    => users[EventTable[body[i]].email].credits
         = BalanceIn(prior, EventTable[body[i]].email)
           + (EventTable[body[i]].amount \div 10)
           + (EventTable[body[j]].amount \div 10)

\* C3: no step lowers the credit balance of an existing account.
C3_BalanceNeverDecreases ==
  [][\A e \in Emails :
       Exists(users[e]) => users'[e].credits >= users[e].credits]_vars

\* C4: a credit-purchase event of amount a handled on its own sets the
\* balance to prior + floor(a/10), prior being the stored balance or 0 for
\* an unseen identifier, and the insert that follows leaves the account as
\* the upsert set it.
C4_SinglePurchaseBalance ==
  [][\A i \in Slots :
       /\ UpsertStep(i) =>
            users'[EventTable[body[i]].email].credits
              = BalanceIn(users, EventTable[body[i]].email)
                + (EventTable[body[i]].amount \div 10)
       /\ (pc[i] = "co_insert" /\ pc'[i] = "done") => users' = users]_vars

\* C4 witness: amount 1000 on the account with balance 5 ended at 105.
C4_Witness ==
  /\ Answered(1, 200)
  /\ body[1] = 3
  /\ GoodSignature(1)
  /\ prior["a@x"].credits = 5
  /\ users["a@x"].credits = 105
  /\ \A k \in Slots \ {1} : pc[k] = "idle"

\* C5: the upsert of a credit-purchase event of amount a sets cumulative
\* spend to the spend stored before plus a/100 (both in hundredths here).
C5_SpendAccumulates ==
  [][\A i \in Slots :
       UpsertStep(i) =>
         users'[EventTable[body[i]].email].total_spent
           = SpentIn(users, EventTable[body[i]].email) + EventTable[body[i]].amount]_vars

\* C6: no step lowers the cumulative spend of an existing account.
C6_SpendNeverDecreases ==
  [][\A e \in Emails :
       Exists(users[e]) => users'[e].total_spent >= users[e].total_spent]_vars

\* Records of the transaction log that belong to the event of request i.
RecordsOf(i) ==
  {k \in DOMAIN transactions :
     LET ev == EventTable[body[i]]
         r == transactions[k]
     IN  \/ /\ ev.type = "checkout.session.completed"
            /\ r.type = "credit_purchase"
            /\ r.session_id = ev.id
         \/ /\ ev.type = "invoice.payment_succeeded"
            /\ r.type = "subscription_payment"
            /\ r.subscription_id = ev.subscription
            /\ r.user_email = ev.email}

\* C7: an event answered 200 that changed an account (a credit purchase, or
\* a subscription payment for an existing account) has exactly one record
\* in the transaction log.
C7_ExactlyOneRecord ==
  \A i \in Slots :
    (/\ Answered(i, 200)
     /\ \/ IsPurchase(i)
        \/ IsPayment(i) /\ Exists(users[EventTable[body[i]].email]))
    => Cardinality(RecordsOf(i)) = 1

\* C8: a request during which a store call failed is answered 500.
C8_StoreFailureIs500 ==
  \A i \in Slots :
    (pc[i] = "done" /\ storeErrors[i] > 0) => status[i] = 500

\* Rows and records without their timestamps.
NoTime(table) ==
  [e \in Emails |->
     [table[e] EXCEPT !.last_purchase = Undefined,
                      !.last_payment = Undefined,
                      !.subscription_cancelled = Undefined]]

NoTimeLog(log) == [k \in DOMAIN log |-> [log[k] EXCEPT !.timestamp = Undefined]]

\* The tables after one delivery of event b is handled from the tables at
\* the start with every store call and every lookup succeeding.
OnceUsers(b) ==
  LET ev == EventTable[b]
      data == Select(prior, SelectedColumns, ev.email)
  IN  CASE ev.type = "checkout.session.completed" ->
             Upsert(prior, ev.email, OrZero(data.credits) + Floor10(OrZero(ev.amount)),
                    1, OrZero(data.total_spent) + OrZero(ev.amount), "free")
        [] ev.type = "invoice.payment_succeeded" ->
             UpdatePayment(prior, ev.email,
                           TierOf(ProductName(SubscriptionProduct(ev.subscription))),
                           ev.subscription, 1)
        [] OTHER -> UpdateCancelled(prior, ResolveEmail(Customer(ev.customer)), 1)

OnceLog(b) ==
  LET ev == EventTable[b]
  IN  CASE ev.type = "checkout.session.completed" ->
             <<[user_email |-> ev.email, session_id |-> ev.id,
                subscription_id |-> NoString, amount |-> OrZero(ev.amount),
                credits_added |-> Floor10(OrZero(ev.amount)), timestamp |-> 1,
                type |-> "credit_purchase", status |-> "completed"]>>
        [] ev.type = "invoice.payment_succeeded" ->
             <<[user_email |-> ev.email, session_id |-> NoString,
                subscription_id |-> ev.subscription, amount |-> OrZero(ev.amount),
                credits_added |-> Undefined, timestamp |-> 1,
                type |-> "subscription_payment", status |-> "completed"]>>
        [] OTHER -> <<>>

\* Requests 1..n are the deliveries of one event, all but the last answered
\* 500 and the last answered 200, and nothing else was delivered.
RetriedUntilOk(n) ==
  /\ n >= 2
  /\ \A i \in 1..n : pc[i] = "done" /\ GoodSignature(i) /\ body[i] = body[1]
  /\ \A i \in 1..(n - 1) : status[i] = 500
  /\ status[n] = 200
  /\ \A k \in Slots : k > n => pc[k] = "idle"

\* C9: an event answered 500 and redelivered until it is answered 200
\* leaves the accounts and the transaction log as one delivery handled
\* without any failure leaves them (timestamps aside).
C9_RetrySameAsOnce ==
  \A n \in Slots :
    RetriedUntilOk(n) =>
      /\ NoTime(users) = NoTime(OnceUsers(body[1]))
      /\ NoTimeLog(transactions) = NoTimeLog(OnceLog(body[1]))

\* The part of C9 that depends neither on the unread insert error nor on a
\* 500 after a write: the same, for a last delivery with no failed store
\* call after deliveries that wrote nothing.
C9_RetrySameAsOnceNoPartialFailure ==
  \A n \in Slots :
    (/\ RetriedUntilOk(n)
     /\ storeErrors[n] = 0
     /\ \A i \in 1..(n - 1) : writes[i] = 0) =>
      /\ NoTime(users) = NoTime(OnceUsers(body[1]))
      /\ NoTimeLog(transactions) = NoTimeLog(OnceLog(body[1]))

\* C10: a request whose signature header is absent, malformed or not the
\* signature of its body under the endpoint's secret is answered 400 at
\* once, makes no store call and no provider lookup, and the step that
\* rejects it leaves accounts and transaction log unchanged.
C10_BadSignatureRejected ==
  /\ [](\A i \in Slots :
          /\ (Checked(i) /\ ~GoodSignature(i)) =>
               /\ Answered(i, 400)
               /\ storeOps[i] = 0
               /\ lookups[i] = 0
          /\ pc[i] = "verifying" => storeOps[i] = 0 /\ lookups[i] = 0)
  /\ [][\A i \in Slots :
          (pc[i] = "verifying" /\ pc'[i] # "verifying"
           /\ header[i] # (SigningSecret * 31 + body[i] * 7) % 97)
            => users' = users /\ transactions' = transactions]_vars

\* C10 witness: a credit purchase for a known email, signed with another
\* secret, was answered 400.
C10_Witness ==
  \E i \in Slots :
    /\ Answered(i, 400)
    /\ body[i] = 1
    /\ header[i] = (OtherSecret * 31 + body[i] * 7) % 97

\* The event of request i, verified by its signature, has this type.
Verified(i) == Checked(i) /\ GoodSignature(i)

HandledTypes ==
  {"checkout.session.completed", "invoice.payment_succeeded",
   "customer.subscription.deleted"}

\* C11: a verified event of a kind no handler takes is answered 200 at
\* once, with no store call and no provider lookup.
C11_UnhandledKindAcknowledged ==
  \A i \in Slots :
    (Verified(i) /\ EventTable[body[i]].type \notin HandledTypes) =>
      /\ Answered(i, 200)
      /\ storeOps[i] = 0
      /\ lookups[i] = 0

\* C11 witness: a customer.created event was answered 200.
C11_Witness ==
  \E i \in Slots :
    /\ Verified(i)
    /\ EventTable[body[i]].type = "customer.created"
    /\ Answered(i, 200)

\* The provider's record of the customer is a deleted one or has no email.
NoEmailCustomer(cus) ==
  \/ Customer(cus).deleted = "true"
  \/ Customer(cus).email \in {NoString, ""}

\* Request i is a cancellation whose customer is deleted upstream or has no
\* email, and the customer lookup has returned.
UnresolvableCancellation(i) ==
  /\ Verified(i)
  /\ EventTable[body[i]].type = "customer.subscription.deleted"
  /\ NoEmailCustomer(EventTable[body[i]].customer)
  /\ lookups[i] = 1
  /\ lookupErrors[i] = 0

\* C12: a cancellation whose customer lookup returns a deleted customer or
\* a customer without email is answered 400 in the step the lookup
\* returns, makes no store call, and that step leaves the accounts as they
\* were.
C12_UnresolvableCancellation400 ==
  /\ [](\A i \in Slots :
          UnresolvableCancellation(i) => Answered(i, 400) /\ storeOps[i] = 0)
  /\ [][\A i \in Slots :
          (pc[i] = "del_customer" /\ NoEmailCustomer(EventTable[body[i]].customer)
           /\ pc'[i] # "del_customer")
            => users' = users]_vars

\* C12 witness: the cancellation for the deleted customer cus_2 was
\* answered 400 after its lookup returned.
C12_Witness ==
  \E i \in Slots :
    /\ UnresolvableCancellation(i)
    /\ EventTable[body[i]].customer = "cus_2"
    /\ Answered(i, 400)

\* C13: a verified credit-purchase or subscription-payment event whose
\* email is absent or empty is answered 400 at once, with no store call and
\* no provider lookup.
C13_NoEmail400 ==
  \A i \in Slots :
    (/\ Verified(i)
     /\ EventTable[body[i]].type \in
          {"checkout.session.completed", "invoice.payment_succeeded"}
     /\ EventTable[body[i]].email \in {NoString, ""})
    => /\ Answered(i, 400)
       /\ storeOps[i] = 0
       /\ lookups[i] = 0

\* C13 witness: the subscription payment with the empty email and the
\* credit purchase with no email were both answered 400.
C13_Witness ==
  \E i, j \in Slots :
    /\ Verified(i) /\ body[i] = 5 /\ Answered(i, 400)
    /\ Verified(j) /\ body[j] = 8 /\ Answered(j, 400)

\* C14: after a credit-purchase or subscription-payment event is answered
\* 200, an account with the event's email exists.
C14_AccountExistsAfter200 ==
  \A i \in Slots :
    (Answered(i, 200) /\ (IsPurchase(i) \/ IsPayment(i)))
      => Exists(users[EventTable[body[i]].email])

\* C15: the upsert of a credit purchase leaves the tier of an account that
\* already exists as it was.
C15_PurchaseKeepsTier ==
  [][\A i \in Slots :
       (UpsertStep(i) /\ Exists(users[EventTable[body[i]].email]))
         => users'[EventTable[body[i]].email].subscription_tier
              = users[EventTable[body[i]].email].subscription_tier]_vars

\* The step in which the account update of payment request i succeeds.
PaymentUpdateStep(i) == pc[i] = "inv_update" /\ pc'[i] = "inv_insert"

\* The step in which the account update of cancellation request i succeeds
\* and the request is answered 200.
CancelUpdateStep(i) ==
  pc[i] = "del_update" /\ pc'[i] = "done" /\ status'[i] = 200

\* C16: the subscription-active flag of an existing account is set to true
\* by the update of a subscription payment, which is then answered 200; it
\* is set to false by the update of a cancellation answered 200; no other
\* step changes it, so no request answered 400 or 500 has changed it.
C16_ActiveFlagStateMachine ==
  [][/\ \A i \in Slots :
          (PaymentUpdateStep(i) /\ Exists(users[EventTable[body[i]].email]))
            => users'[EventTable[body[i]].email].subscription_active = TRUE
     /\ \A i \in Slots :
          (pc[i] = "inv_insert" /\ pc'[i] # "inv_insert") => status'[i] = 200
     /\ \A i \in Slots :
          (CancelUpdateStep(i) /\ Exists(users[Customer(EventTable[body[i]].customer).email]))
            => users'[Customer(EventTable[body[i]].customer).email].subscription_active = FALSE
     /\ \A e \in Emails :
          (Exists(users[e]) /\ users'[e].subscription_active # users[e].subscription_active)
            => \E i \in Slots :
                 \/ PaymentUpdateStep(i) /\ EventTable[body[i]].email = e
                 \/ CancelUpdateStep(i) /\ Customer(EventTable[body[i]].customer).email = e
     /\ \A i \in Slots :
          (status[i] = NoStatus /\ status'[i] \in {400, 500}) => users' = users]_vars

\* C17: when one subscription-payment event was delivered twice, each
\* delivery answered 200 with no failed call, accounts and transaction log
\* are as after one delivery (timestamps aside).
C17_PaymentReplaySameAsOnce ==
  \A i, j \in Slots :
    (/\ i < j
     /\ IsPayment(i) /\ IsPayment(j) /\ body[i] = body[j]
     /\ Answered(i, 200) /\ Answered(j, 200)
     /\ storeErrors[i] = 0 /\ storeErrors[j] = 0
     /\ \A k \in Slots \ {i, j} : pc[k] = "idle")
    => /\ NoTime(users) = NoTime(OnceUsers(body[i]))
       /\ NoTimeLog(transactions) = NoTimeLog(OnceLog(body[i]))

\* C18: a request one of whose provider lookups failed is answered 500 in
\* the step the lookup fails, makes no store call, and that step leaves
\* accounts and transaction log as they were.
C18_LookupFailureIs500 ==
  /\ [](\A i \in Slots :
          lookupErrors[i] > 0 => Answered(i, 500) /\ storeOps[i] = 0)
  /\ [][\A i \in Slots :
          lookupErrors'[i] > lookupErrors[i]
            => users' = users /\ transactions' = transactions]_vars

\* C18 witness: a subscription payment whose product lookup failed (after
\* the subscription lookup returned) was answered 500.
C18_Witness ==
  \E i \in Slots :
    /\ IsPayment(i)
    /\ lookups[i] = 2
    /\ lookupErrors[i] = 1
    /\ Answered(i, 500)

\* The awaits of the handler of an event type.
HandlerSteps(type) ==
  CASE type = "checkout.session.completed" -> {"co_select", "co_upsert", "co_insert"}
    [] type = "invoice.payment_succeeded" ->
         {"inv_subscription", "inv_product", "inv_update", "inv_insert"}
    [] type = "customer.subscription.deleted" -> {"del_customer", "del_update"}
    [] OTHER -> {}

\* The store calls and provider lookups the handler of an event type makes
\* at most.
MaxStoreOps(type) ==
  CASE type = "checkout.session.completed" -> 3
    [] type = "invoice.payment_succeeded" -> 2
    [] type = "customer.subscription.deleted" -> 1
    [] OTHER -> 0

MaxLookups(type) ==
  CASE type = "invoice.payment_succeeded" -> 2
    [] type = "customer.subscription.deleted" -> 1
    [] OTHER -> 0

\* C19: a request is answered at most once (it has a status exactly when it
\* is over, and a request that is over never changes its status nor makes
\* another call); an unverified request runs no handler; a verified request
\* is only ever inside the handler of its event's kind and makes no more
\* calls than that handler has.
C19_OneHandlerOneResponse ==
  /\ [](\A i \in Slots :
          /\ (pc[i] = "done") <=> (status[i] # NoStatus)
          /\ (Checked(i) /\ ~GoodSignature(i)) => pc[i] = "done"
          /\ Verified(i) =>
               /\ pc[i] \in HandlerSteps(EventTable[body[i]].type) \cup {"done"}
               /\ storeOps[i] <= MaxStoreOps(EventTable[body[i]].type)
               /\ lookups[i] <= MaxLookups(EventTable[body[i]].type))
  /\ [][\A i \in Slots :
          pc[i] = "done" =>
            /\ pc'[i] = "done"
            /\ status'[i] = status[i]
            /\ storeOps'[i] = storeOps[i]
            /\ lookups'[i] = lookups[i]]_vars

\* C19 witness: a credit purchase and a subscription payment were each
\* handled to 200 by their own handler.
C19_Witness ==
  /\ IsPurchase(1) /\ Answered(1, 200) /\ storeOps[1] = 3 /\ lookups[1] = 0
  /\ IsPayment(2) /\ Answered(2, 200) /\ storeOps[2] = 2 /\ lookups[2] = 2

\* C20: every request that was received is eventually answered, also when
\* a call it awaits never returns.
C20_EveryRequestAnswered ==
  \A i \in Slots : (pc[i] # "idle") ~> (pc[i] = "done")

\* C21: the transaction log is append-only: every step leaves the log as
\* it was or extends it at the end, so the log of an earlier state is a
\* prefix of the log of every later state.
C21_LogAppendOnly ==
  [][/\ Len(transactions') >= Len(transactions)
     /\ SubSeq(transactions', 1, Len(transactions)) = transactions]_vars

\* C21 witness: a second record was appended after a first.
C21_Witness ==
  /\ Len(transactions) = 2
  /\ transactions[1].type = "credit_purchase"
  /\ transactions[2].type = "subscription_payment"

\* C22: every account has a non-negative integer credit balance and a tier
\* that is free, premium or enterprise.
C22_AccountWellFormed ==
  \A e \in Emails :
    Exists(users[e]) =>
      /\ users[e].credits \in Nat
      /\ users[e].subscription_tier \in {"free", "premium", "enterprise"}

\* C22 witness: an account created by a purchase was then given the
\* enterprise tier by a subscription payment.
C22_Witness ==
  /\ ~Exists(prior["a@x"])
  /\ Exists(users["a@x"])
  /\ users["a@x"].credits = 50
  /\ users["a@x"].subscription_tier = "enterprise"

\* The name of the product of a subscription contains "Premium".
NameHasPremium(sub) ==
  LET name == ProductName(SubscriptionProduct(sub))
  IN  \E k \in 1..Len(name) :
        k + 6 <= Len(name) /\ SubSeq(name, k, k + 6) = Premium

\* C23: the update of a subscription payment on an existing account sets
\* the tier to premium when the product name contains "Premium" and to
\* enterprise otherwise, sets the subscription reference to the event's
\* subscription and the active flag to true, leaves balance and cumulative
\* spend as they were, and the insert that follows leaves the account so.
C23_PaymentUpdate ==
  [][\A i \in Slots :
       /\ (PaymentUpdateStep(i) /\ Exists(users[EventTable[body[i]].email])) =>
            LET ev == EventTable[body[i]]
                old == users[ev.email]
                new == users'[ev.email]
            IN  /\ new.subscription_tier =
                     IF NameHasPremium(ev.subscription) THEN "premium" ELSE "enterprise"
                /\ new.subscription_id = ev.subscription
                /\ new.subscription_active = TRUE
                /\ new.credits = old.credits
                /\ new.total_spent = old.total_spent
       /\ (pc[i] = "inv_insert" /\ pc'[i] # "inv_insert") => users' = users]_vars

\* C23 witness: on an account that existed, the payment for the Premium
\* product was answered 200 and the account is premium, active, with its
\* balance and spend untouched.
C23_Witness ==
  /\ Exists(prior["a@x"])
  /\ IsPayment(1) /\ body[1] = 6 /\ Answered(1, 200)
  /\ pc[2] = "idle"
  /\ users["a@x"].subscription_tier = "premium"
  /\ users["a@x"].subscription_id = "sub_1"
  /\ users["a@x"].subscription_active = TRUE
  /\ users["a@x"].credits = 5
  /\ users["a@x"].total_spent = 0

\* The request in slot i is a verified cancellation event.
IsCancellation(i) ==
  /\ pc[i] # "idle"
  /\ body[i] \in EventIds
  /\ EventTable[body[i]].type = "customer.subscription.deleted"

\* C24: the update of a cancellation answered 200 sets the active flag of
\* the account of the customer's email to false and leaves its balance,
\* spend, tier and subscription reference as they were; where no account
\* exists for the email none is created; no other account changes, and no
\* step of a cancellation request appends a record.
C24_CancellationFrame ==
  [][\A i \in Slots :
       /\ CancelUpdateStep(i) =>
            LET e == Customer(EventTable[body[i]].customer).email
            IN  /\ \A o \in Emails \ {e} : users'[o] = users[o]
                /\ IF Exists(users[e])
                     THEN /\ users'[e].subscription_active = FALSE
                          /\ users'[e].credits = users[e].credits
                          /\ users'[e].total_spent = users[e].total_spent
                          /\ users'[e].subscription_tier = users[e].subscription_tier
                          /\ users'[e].subscription_id = users[e].subscription_id
                     ELSE users'[e] = users[e]
       /\ (IsCancellation(i) /\ pc'[i] # pc[i]) => transactions' = transactions]_vars

\* C24 witness: a cancellation answered 200 after a payment answered 200
\* left the account inactive with the tier and subscription reference the
\* payment gave it, and the log holds the payment's record only.
C24_Witness ==
  /\ body[1] = 7 /\ Answered(1, 200)
  /\ body[2] = 9 /\ Answered(2, 200)
  /\ users["a@x"].subscription_active = FALSE
  /\ users["a@x"].subscription_tier = "enterprise"
  /\ users["a@x"].subscription_id = "sub_2"
  /\ Len(transactions) = 1

\* C25: a request answered 500 has made no successful store write: the
\* step that answers 500 leaves every account and the log as they were,
\* no write of the request succeeded before it, and every change of an
\* account or of the log is a successful write of some request.
C25_Answer500Step ==
  [][/\ \A i \in Slots :
          (status[i] = NoStatus /\ status'[i] = 500) =>
            /\ users' = users
            /\ transactions' = transactions
            /\ writes[i] = 0
            /\ writes'[i] = 0
     /\ (users' # users \/ transactions' # transactions) =>
          \E i \in Slots : writes'[i] = writes[i] + 1]_vars

\* C26: a credit_purchase record is appended only by the insert of a
\* purchase request whose own upsert has succeeded, and it carries that
\* request's session; a purchase whose upsert failed is answered 500 without
\* an insert.
C26_UpsertBeforeAppend ==
  [][/\ (/\ Len(transactions') > Len(transactions)
         /\ transactions'[Len(transactions')].type = "credit_purchase") =>
            \E i \in Slots :
              /\ IsPurchase(i)
              /\ pc[i] = "co_insert" /\ pc'[i] = "done"
              /\ storeOps[i] = 2 /\ storeErrors[i] = 0 /\ writes[i] = 1
              /\ transactions'[Len(transactions')].session_id = EventTable[body[i]].id
     /\ \A i \in Slots :
          (pc[i] = "co_upsert" /\ pc'[i] # "co_upsert" /\ storeErrors'[i] > 0) =>
            /\ pc'[i] = "done"
            /\ status'[i] = 500
            /\ transactions' = transactions]_vars

\* C26 witness: one purchase was answered 200 with its record in the log
\* and another, whose upsert failed, was answered 500 with no record.
C26_Witness ==
  /\ body[1] = 1 /\ Answered(1, 200) /\ storeErrors[1] = 0
  /\ body[2] = 2 /\ Answered(2, 500) /\ storeOps[2] = 2
  /\ Len(transactions) = 1
  /\ transactions[1].session_id = "cs_1"

\* C27: the upsert of a purchase on an existing account leaves the
\* account's active flag and subscription reference as they were.
C27_PurchaseKeepsSubscription ==
  [][\A i \in Slots :
       (UpsertStep(i) /\ Exists(users[EventTable[body[i]].email])) =>
         LET e == EventTable[body[i]].email
         IN  /\ users'[e].subscription_active = users[e].subscription_active
             /\ users'[e].subscription_id = users[e].subscription_id]_vars

\* C27 witness: a purchase answered 200 after a payment answered 200 left
\* the account active on the payment's subscription with the purchased
\* credits.
C27_Witness ==
  /\ body[1] = 6 /\ Answered(1, 200)
  /\ body[2] = 1 /\ Answered(2, 200)
  /\ users["a@x"].subscription_active = TRUE
  /\ users["a@x"].subscription_id = "sub_1"
  /\ Len(transactions) = 2

====
